---- MODULE Spec2Model ----
(***************************************************************************)
(* Model of src/src/App.js (display-graph): a React component that fetches *)
(* a CSV, turns its rows into a graph (processCSVData), keeps the graph,   *)
(* the experiment colour map and the visibility selection in component     *)
(* state, and derives the filtered view shown to the renderer.             *)
(*                                                                         *)
(* Strings that the code concatenates or splits (model, node names, ids,   *)
(* the url) are sequences of one-character strings, so that                *)
(* `${model}:${fromNode}`, split(':') and endsWith('.csv') are computed.   *)
(* Relationship and experiment values are only tested for emptiness and    *)
(* used as keys, so they are TLA+ strings.  An empty value stands for a    *)
(* field that is empty or absent in the row: the code tests both with the  *)
(* same falsy test.  A row is the view of a parsed CSV row through the     *)
(* five configured header names.                                           *)
(*                                                                         *)
(* React state updates made by one handler are applied together (one       *)
(* render per handler), so each handler is one action; filteredGraphData   *)
(* (useMemo) is recomputed by every action from the new state.             *)
(***************************************************************************)
EXTENDS Integers, Sequences, FiniteSets, TLC

VARIABLES
    url,                \* useState('') of the CSV URL text field
    fullGraphData,      \* [nodes, edges]
    isLoading,          \* loading flag, disables the Visualize button
    experimentColors,   \* object: experiment tag -> colour
    visibleExperiments, \* object: experiment tag -> boolean
    filteredGraphData,  \* useMemo result: [nodes, links]
    pc,                 \* position of handleVisualize: "idle" or "fetching"
    inFlight,           \* the loads (by number) whose fetch has not settled yet
    loads,              \* number of loads started (bounds the model, seeds edge ids)
    csvData,            \* results.data the current full graph was built from, if any
    lastOp,             \* history: the last handler that ran
    snap                \* history: state before the running load / the last toggle

vars == <<url, fullGraphData, isLoading, experimentColors, visibleExperiments,
          filteredGraphData, pc, inFlight, loads, csvData, lastOp, snap>>

----------------------------------------------------------------------------
(* Bounds of the model *)

MaxRows == 2

MaxLoads == 2

MaxTagRows == 9

----------------------------------------------------------------------------
(* Strings *)

Str1(a) == <<a>>

Colon == ":"

DotCsv == <<".", "c", "s", "v">>

\* String.prototype.endsWith
EndsWith(s, suffix) ==
    /\ Len(s) >= Len(suffix)
    /\ SubSeq(s, Len(s) - Len(suffix) + 1, Len(s)) = suffix

Range(s) == {s[i] : i \in 1..Len(s)}

\* index of the first ':' of s, or 0
FirstColon(s) ==
    IF \E i \in 1..Len(s) : s[i] = Colon
    THEN CHOOSE i \in 1..Len(s) : s[i] = Colon /\ \A j \in 1..(i - 1) : s[j] # Colon
    ELSE 0

\* nodeId.split(':')[0]
SplitHead(s) ==
    IF FirstColon(s) = 0 THEN s ELSE SubSeq(s, 1, FirstColon(s) - 1)

\* nodeId.split(':').slice(1).join(':')
SplitRest(s) ==
    IF FirstColon(s) = 0 THEN <<>> ELSE SubSeq(s, FirstColon(s) + 1, Len(s))

\* `${model}:${node}`
MakeId(model, node) == model \o <<Colon>> \o node

----------------------------------------------------------------------------
(* The palette, line 7 *)

colors == << "#FF6B6B", "#4ECDC4", "#45B7D1", "#96CEB4",
             "#FFEEAD", "#FF9999", "#77DD77", "#AEC6CF" >>

\* colors[index % colors.length], index 0-based
PaletteColor(index) == colors[(index % Len(colors)) + 1]

----------------------------------------------------------------------------
(* JavaScript objects used as maps *)

EmptyObj == [k \in {} |-> TRUE]

\* the value undefined, read from a key an object does not have
Undefined == "<undefined>"

\* Object.prototype, read from the key "__proto__" of a plain object
ObjectPrototype == "[object Object]"

Proto == "__proto__"

\* obj[key] = value on a plain object: the key "__proto__" reaches the
\* prototype setter, which ignores a value that is not an object
ObjSet(obj, key, value) ==
    IF key = Proto THEN obj ELSE (key :> value) @@ obj

\* obj[key] read from a plain object holding strings
ObjGet(obj, key) ==
    IF key \in DOMAIN obj THEN obj[key]
    ELSE IF key = Proto THEN ObjectPrototype ELSE Undefined

\* obj[key] === true
IsTrue(obj, key) == key \in DOMAIN obj /\ obj[key] = TRUE

\* !obj[key] for an object holding booleans
NotOf(obj, key) ==
    IF key \in DOMAIN obj THEN ~obj[key]
    ELSE IF key = Proto THEN FALSE ELSE TRUE

\* mutant of SetAdd: an array push instead of a Set add
MutSetAddPush(s, x) == Append(s, x)

\* Set.prototype.add on an insertion-ordered set
SetAdd(s, x) == IF x \in Range(s) THEN s ELSE Append(s, x)

----------------------------------------------------------------------------
(* processCSVData, lines 22-74 *)

Row(m, f, t, r, e) ==
    [model |-> m, from_node |-> f, to_node |-> t, relationship |-> r, experiment |-> e]

\* mutant of ExperimentOf: no default tag
MutExperimentOfRaw(row) == row.experiment

\* line 31: row[experimentHeader] || 'undefined'
ExperimentOf(row) == IF row.experiment = "" THEN "undefined" ELSE row.experiment

\* mutant of Accepted: the relationship is not required
MutAcceptedNoRelationship(row) ==
    /\ row.from_node # <<>>
    /\ row.to_node # <<>>
    /\ row.model # <<>>

\* line 34 negated: the row is kept
Accepted(row) ==
    /\ row.from_node # <<>>
    /\ row.to_node # <<>>
    /\ row.model # <<>>
    /\ row.relationship # ""

\* mutant of ProcessRow: the target id is not added to the node set
MutProcessRowNoTarget(acc, row) ==
    IF ~Accepted(row) THEN acc
    ELSE LET sourceId == MakeId(row.model, row.from_node)
             targetId == MakeId(row.model, row.to_node)
         IN [acc EXCEPT
               !.overallNodeSet = SetAdd(@, sourceId),
               !.experiments = SetAdd(@, ExperimentOf(row)),
               !.allExtractedEdges =
                   Append(@, [source |-> sourceId, target |-> targetId,
                              relationship |-> row.relationship,
                              experiment |-> ExperimentOf(row)])]

\* mutant of ProcessRow: an edge equal to an earlier one is not pushed again
MutProcessRowMergesEdges(acc, row) ==
    IF ~Accepted(row) THEN acc
    ELSE LET sourceId == MakeId(row.model, row.from_node)
             targetId == MakeId(row.model, row.to_node)
         IN [acc EXCEPT
               !.overallNodeSet = SetAdd(SetAdd(@, sourceId), targetId),
               !.experiments = SetAdd(@, ExperimentOf(row)),
               !.allExtractedEdges =
                   SetAdd(@, [source |-> sourceId, target |-> targetId,
                              relationship |-> row.relationship,
                              experiment |-> ExperimentOf(row)])]

\* lines 27-53, one iteration of csvData.forEach
ProcessRow(acc, row) ==
    IF ~Accepted(row) THEN acc
    ELSE LET sourceId == MakeId(row.model, row.from_node)
             targetId == MakeId(row.model, row.to_node)
         IN [acc EXCEPT
               !.overallNodeSet = SetAdd(SetAdd(@, sourceId), targetId),
               !.experiments = SetAdd(@, ExperimentOf(row)),
               !.allExtractedEdges =
                   Append(@, [source |-> sourceId, target |-> targetId,
                              relationship |-> row.relationship,
                              experiment |-> ExperimentOf(row)])]

RECURSIVE ForEachRow(_, _, _)
ForEachRow(acc, rows, i) ==
    IF i > Len(rows) THEN acc
    ELSE ForEachRow(ProcessRow(acc, rows[i]), rows, i + 1)

\* lines 55-58
RECURSIVE BuildColorMap(_, _, _)
BuildColorMap(colorMap, experiments, i) ==
    IF i > Len(experiments) THEN colorMap
    ELSE BuildColorMap(ObjSet(colorMap, experiments[i], PaletteColor(i - 1)),
                       experiments, i + 1)

\* lines 61-70
MakeNode(nodeId) ==
    [id |-> nodeId, label |-> SplitRest(nodeId), model |-> SplitHead(nodeId)]

processCSVData(rows) ==
    LET acc == ForEachRow([overallNodeSet |-> <<>>, experiments |-> <<>>,
                           allExtractedEdges |-> <<>>], rows, 1)
    IN [nodes |-> [i \in 1..Len(acc.overallNodeSet) |-> MakeNode(acc.overallNodeSet[i])],
        edges |-> acc.allExtractedEdges,
        experimentColorMap |-> BuildColorMap(EmptyObj, acc.experiments, 1)]

----------------------------------------------------------------------------
(* filteredGraphData, lines 136-157 *)

\* mutant of EdgeVisible: the test is inverted
MutEdgeVisibleInverted(visible, edge) ==
    edge.experiment \in DOMAIN visible /\ visible[edge.experiment] = FALSE

\* line 142
EdgeVisible(visible, edge) == IsTrue(visible, edge.experiment)

\* mutant of FilterGraph: the nodes are not filtered
MutFilterGraphAllNodes(full, visible) ==
    LET vis(e) == EdgeVisible(visible, e)
    IN [nodes |-> full.nodes, links |-> SelectSeq(full.edges, vis)]

FilterGraph(full, visible) ==
    IF Len(full.nodes) = 0 THEN [nodes |-> <<>>, links |-> <<>>]
    ELSE LET vis(e) == EdgeVisible(visible, e)
             visibleEdges == SelectSeq(full.edges, vis)
             visibleNodeIds == {visibleEdges[i].source : i \in 1..Len(visibleEdges)}
                                 \cup {visibleEdges[i].target : i \in 1..Len(visibleEdges)}
             has(n) == n.id \in visibleNodeIds
         IN [nodes |-> SelectSeq(full.nodes, has), links |-> visibleEdges]

----------------------------------------------------------------------------
(* handleVisualize, lines 76-134 *)

EmptyGraph == [nodes |-> <<>>, edges |-> <<>>]

NoRows == [present |-> FALSE]

NoSnap == [taken |-> FALSE]

Snapshot ==
    [taken |-> TRUE, graph |-> fullGraphData, colors |-> experimentColors,
     visible |-> visibleExperiments, loading |-> isLoading, loads |-> loads]

\* position of handleVisualize given the loads still in flight
PcOf(pending) == IF pending = {} THEN "idle" ELSE "fetching"

\* history: some experiment was hidden in the snapshotted selection
HadHidden(s) == s.taken /\ \E k \in DOMAIN s.visible : s.visible[k] = FALSE

\* mutant of ValidUrl: the extension is not tested
MutValidUrlNonEmpty(u) == u # <<>>

\* line 77
ValidUrl(u) == u # <<>> /\ EndsWith(u, DotCsv)

\* mutant of InitialVisibility: the experiments start hidden
MutInitialVisibilityHidden(colorMap) == [exp \in DOMAIN colorMap |-> FALSE]

\* lines 106-109
InitialVisibility(colorMap) == [exp \in DOMAIN colorMap |-> TRUE]

\* mutant of MakeEdge: the colour is taken from the palette by edge position
MutMakeEdgeColorByPosition(edge, colorMap, loadNo, k) ==
    [id |-> <<loadNo, k>>,
     source |-> edge.source,
     target |-> edge.target,
     label |-> edge.relationship,
     color |-> PaletteColor(k - 1),
     experiment |-> edge.experiment]

\* lines 116-123; `e-${uuidv4()}` is a fresh identifier: (load number, position)
MakeEdge(edge, colorMap, loadNo, k) ==
    [id |-> <<loadNo, k>>,
     source |-> edge.source,
     target |-> edge.target,
     label |-> edge.relationship,
     color |-> ObjGet(colorMap, edge.experiment),
     experiment |-> edge.experiment]

Urls == { <<>>, <<"d">> \o DotCsv, <<"d", ".", "t", "x", "t">> }

\* onChange of the URL field, line 173
SetUrl ==
    /\ \E u \in Urls : u # url /\ url' = u
    /\ UNCHANGED <<fullGraphData, isLoading, experimentColors, visibleExperiments,
                   filteredGraphData, pc, inFlight, loads, csvData, lastOp, snap>>

\* lines 77-80: click on Visualize with a url that is rejected
HandleVisualizeRejected ==
    /\ ~isLoading
    /\ ~ValidUrl(url)
    /\ lastOp' = [op |-> "rejected", url |-> url]
    /\ snap' = Snapshot
    /\ UNCHANGED <<url, fullGraphData, isLoading, experimentColors, visibleExperiments,
                   filteredGraphData, pc, inFlight, loads, csvData>>

\* mutant of HandleVisualizeStart: the button is not disabled while loading
MutHandleVisualizeStartNotDisabled(maxLoads) ==
    /\ ValidUrl(url)
    /\ loads < maxLoads
    /\ isLoading' = TRUE
    /\ fullGraphData' = EmptyGraph
    /\ visibleExperiments' = EmptyObj
    /\ experimentColors' = EmptyObj
    /\ filteredGraphData' = FilterGraph(EmptyGraph, EmptyObj)
    /\ pc' = "fetching"
    /\ inFlight' = inFlight \cup {loads + 1}
    /\ loads' = loads + 1
    /\ csvData' = NoRows
    /\ lastOp' = [op |-> "start", url |-> url]
    /\ snap' = Snapshot
    /\ UNCHANGED url

\* mutant of HandleVisualizeStart: the selection is not cleared
MutHandleVisualizeStartKeepsSelection(maxLoads) ==
    /\ ~isLoading
    /\ ValidUrl(url)
    /\ loads < maxLoads
    /\ isLoading' = TRUE
    /\ fullGraphData' = EmptyGraph
    /\ visibleExperiments' = visibleExperiments
    /\ experimentColors' = EmptyObj
    /\ filteredGraphData' = FilterGraph(EmptyGraph, EmptyObj)
    /\ pc' = "fetching"
    /\ inFlight' = inFlight \cup {loads + 1}
    /\ loads' = loads + 1
    /\ csvData' = NoRows
    /\ lastOp' = [op |-> "start", url |-> url]
    /\ snap' = Snapshot
    /\ UNCHANGED url

\* mutant of HandleVisualizeStart: the colour map is not cleared
MutHandleVisualizeStartKeepsColors(maxLoads) ==
    /\ ~isLoading
    /\ ValidUrl(url)
    /\ loads < maxLoads
    /\ isLoading' = TRUE
    /\ fullGraphData' = EmptyGraph
    /\ visibleExperiments' = EmptyObj
    /\ experimentColors' = experimentColors
    /\ filteredGraphData' = FilterGraph(EmptyGraph, EmptyObj)
    /\ pc' = "fetching"
    /\ inFlight' = inFlight \cup {loads + 1}
    /\ loads' = loads + 1
    /\ csvData' = NoRows
    /\ lastOp' = [op |-> "start", url |-> url]
    /\ snap' = Snapshot
    /\ UNCHANGED url

\* lines 82-88: click on Visualize, up to the await of fetch
HandleVisualizeStart(maxLoads) ==
    /\ ~isLoading
    /\ ValidUrl(url)
    /\ loads < maxLoads
    /\ isLoading' = TRUE
    /\ fullGraphData' = EmptyGraph
    /\ visibleExperiments' = EmptyObj
    /\ experimentColors' = EmptyObj
    /\ filteredGraphData' = FilterGraph(EmptyGraph, EmptyObj)
    /\ pc' = "fetching"
    /\ inFlight' = inFlight \cup {loads + 1}
    /\ loads' = loads + 1
    /\ csvData' = NoRows
    /\ lastOp' = [op |-> "start", url |-> url]
    /\ snap' = Snapshot
    /\ UNCHANGED url

\* lines 130-133: fetch or response.text() rejects
NetworkFailure ==
    /\ pc = "fetching"
    /\ \E load \in inFlight : inFlight' = inFlight \ {load}
    /\ isLoading' = FALSE
    /\ pc' = PcOf(inFlight')
    /\ lastOp' = [op |-> "networkFailure"]
    /\ UNCHANGED <<url, fullGraphData, experimentColors, visibleExperiments,
                   filteredGraphData, loads, csvData, snap>>

\* mutant of ParseFailure: the branch returns without setIsLoading(false)
MutParseFailureKeepsLoading ==
    /\ pc = "fetching"
    /\ \E load \in inFlight : inFlight' = inFlight \ {load}
    /\ pc' = PcOf(inFlight')
    /\ lastOp' = [op |-> "parseFailure"]
    /\ UNCHANGED <<url, fullGraphData, isLoading, experimentColors, visibleExperiments,
                   filteredGraphData, loads, csvData, snap>>

\* lines 96-101: the parser reports errors
ParseFailure ==
    /\ pc = "fetching"
    /\ \E load \in inFlight : inFlight' = inFlight \ {load}
    /\ isLoading' = FALSE
    /\ pc' = PcOf(inFlight')
    /\ lastOp' = [op |-> "parseFailure"]
    /\ UNCHANGED <<url, fullGraphData, experimentColors, visibleExperiments,
                   filteredGraphData, loads, csvData, snap>>

\* lines 103-127: the parser completes without errors and delivers rows
Complete(rows) ==
    /\ pc = "fetching"
    /\ \E load \in inFlight, processedData \in {processCSVData(rows)} :
         LET colorMap == processedData.experimentColorMap
             initialVisibility == InitialVisibility(colorMap)
             graph == [nodes |-> processedData.nodes,
                       edges |-> [k \in 1..Len(processedData.edges) |->
                                    MakeEdge(processedData.edges[k], colorMap, load, k)]]
         IN /\ visibleExperiments' = initialVisibility
            /\ experimentColors' = colorMap
            /\ fullGraphData' = graph
            /\ filteredGraphData' = FilterGraph(graph, initialVisibility)
            /\ csvData' = [present |-> TRUE, rows |-> rows]
            /\ inFlight' = inFlight \ {load}
            /\ lastOp' = [op |-> "loaded", hiddenBefore |-> HadHidden(snap), load |-> load]
    /\ isLoading' = FALSE
    /\ pc' = PcOf(inFlight')
    /\ snap' = NoSnap
    /\ UNCHANGED <<url, loads>>

----------------------------------------------------------------------------
(* toggleExperimentVisibility, lines 159-164; a chip exists for every entry *)
(* of experimentColors, lines 225-236                                       *)

\* mutant of ToggleSelection: the previous selection is not spread
MutToggleSelectionNoSpread(prev, experiment) ==
    [k \in {experiment} |-> NotOf(prev, experiment)]

ToggleSelection(prev, experiment) ==
    [k \in DOMAIN prev \cup {experiment} |->
        IF k = experiment THEN NotOf(prev, experiment) ELSE prev[k]]

ToggleExperimentVisibility ==
    \E exp \in DOMAIN experimentColors :
        /\ visibleExperiments' = ToggleSelection(visibleExperiments, exp)
        /\ filteredGraphData' = FilterGraph(fullGraphData, visibleExperiments')
        /\ lastOp' = [op |-> "toggle", experiment |-> exp]
        /\ snap' = Snapshot
        /\ UNCHANGED <<url, fullGraphData, isLoading, experimentColors, pc, inFlight,
                       loads, csvData>>

----------------------------------------------------------------------------
(* Inputs *)

RECURSIVE SeqsUpTo(_, _)
SeqsUpTo(S, n) ==
    IF n = 0 THEN {<<>>}
    ELSE LET shorter == SeqsUpTo(S, n - 1)
         IN shorter \cup {Append(s, x) : s \in {t \in shorter : Len(t) = n - 1}, x \in S}

\* rows of the application-level specification: complete rows over two
\* endpoint pairs that share no node (a -> b and a self-loop c -> c), with
\* an experiment column that holds one of two tags or is empty
AppEndpoints == { <<Str1("a"), Str1("b")>>, <<Str1("c"), Str1("c")>> }

AppRows ==
    {Row(Str1("m"), p[1], p[2], "r", e) : p \in AppEndpoints, e \in {"e1", "e2", ""}}

AppInputs == SeqsUpTo(AppRows, MaxRows)

\* rows of the row-level specification: rows with any of the fields left
\* empty, and rows whose model or node names contain the separator
BlankRows ==
    {Row(m, f, t, r, e) :
        m \in {Str1("m"), <<>>}, f \in {Str1("a"), <<>>}, t \in {Str1("b"), <<>>},
        r \in {"r", ""}, e \in {"e1", "e2"}}

ColonRows ==
    {Row(m, f, t, "r", "e1") :
        m \in {Str1("m"), <<"m", ":">>},
        f \in {Str1("a"), <<":", "a">>}, t \in {Str1("a"), <<":", "a">>}}

RichInputs == SeqsUpTo(BlankRows \cup ColonRows, MaxRows)

\* datasets of up to MaxTagRows complete rows whose i-th row carries a tag of
\* its own, an empty experiment or the tag "__proto__"
TagNames == << "e1", "e2", "e3", "e4", "e5", "e6", "e7", "e8", "e9", "e10", "e11", "e12" >>

\* the experiment of the i-th row of such a dataset
TagChoice(i, k) == IF k = "own" THEN TagNames[i] ELSE k

TagRows(n, choice) ==
    [i \in 1..n |-> Row(Str1("m"), Str1("a"), Str1("b"), "r", TagChoice(i, choice[i]))]

\* the parser completes with one of the datasets of `inputs`
ParseComplete(inputs) == pc = "fetching" /\ \E rows \in inputs : Complete(rows)

\* the parser completes with a dataset of tagged rows
ParseCompleteTags ==
    /\ pc = "fetching"
    /\ \E n \in 0..MaxTagRows : \E choice \in [1..n -> {"own", "", Proto}] :
        Complete(TagRows(n, choice))

----------------------------------------------------------------------------
(* Specification of the application *)

Init ==
    /\ url = <<>>
    /\ fullGraphData = EmptyGraph
    /\ isLoading = FALSE
    /\ experimentColors = EmptyObj
    /\ visibleExperiments = EmptyObj
    /\ filteredGraphData = FilterGraph(EmptyGraph, EmptyObj)
    /\ pc = "idle"
    /\ inFlight = {}
    /\ loads = 0
    /\ csvData = NoRows
    /\ lastOp = [op |-> "init"]
    /\ snap = NoSnap

Next ==
    \/ SetUrl
    \/ HandleVisualizeRejected
    \/ HandleVisualizeStart(MaxLoads)
    \/ NetworkFailure
    \/ ParseFailure
    \/ ParseComplete(AppInputs)
    \/ ToggleExperimentVisibility

Spec == Init /\ [][Next]_vars

\* rows of the specification with fairness: which rows arrive does not
\* matter to the loading flag, so two rows stand for the datasets
LiveRows ==
    { Row(Str1("m"), Str1("a"), Str1("b"), "r", "e1"),
      Row(Str1("m"), Str1("c"), Str1("c"), "r", "") }

LiveInputs == SeqsUpTo(LiveRows, MaxRows)

\* the awaited fetch settles: it rejects, or the parser gets the text and
\* reports errors or rows
Settle ==
    \/ NetworkFailure
    \/ ParseFailure
    \/ ParseComplete(LiveInputs)

NextLive ==
    \/ SetUrl
    \/ HandleVisualizeRejected
    \/ HandleVisualizeStart(MaxLoads)
    \/ NetworkFailure
    \/ ParseFailure
    \/ ParseComplete(LiveInputs)
    \/ ToggleExperimentVisibility

\* the application under the assumption that a fetch that was issued
\* eventually settles
SpecLive == Init /\ [][NextLive]_vars /\ WF_vars(Settle)

----------------------------------------------------------------------------
(* Specification of one load over the row-level inputs: the URL is typed   *)
(* in, Visualize is clicked once and the parser delivers the rows          *)

CsvUrl == <<"d">> \o DotCsv

InitRows ==
    /\ url = CsvUrl
    /\ fullGraphData = EmptyGraph
    /\ isLoading = FALSE
    /\ experimentColors = EmptyObj
    /\ visibleExperiments = EmptyObj
    /\ filteredGraphData = FilterGraph(EmptyGraph, EmptyObj)
    /\ pc = "idle"
    /\ inFlight = {}
    /\ loads = 0
    /\ csvData = NoRows
    /\ lastOp = [op |-> "init"]
    /\ snap = NoSnap

NextRows ==
    \/ HandleVisualizeStart(1)
    \/ ParseComplete(RichInputs)
    \/ ParseCompleteTags

SpecRows == InitRows /\ [][NextRows]_vars

----------------------------------------------------------------------------
(* Vocabulary of the properties *)

Nodes == fullGraphData.nodes

Edges == fullGraphData.edges

NodeIdSet == {Nodes[i].id : i \in 1..Len(Nodes)}

LoadFailed == lastOp.op \in {"networkFailure", "parseFailure"}

\* the four required fields of a row are present
Complete4(row) ==
    row.model # <<>> /\ row.from_node # <<>> /\ row.to_node # <<>> /\ row.relationship # ""

\* the rows of the parsed dataset that have their four required fields
KeptRows == SelectSeq(csvData.rows, Complete4)

\* the experiment tag of a row
TagOf(row) == IF row.experiment = "" THEN "undefined" ELSE row.experiment

KeptTags == {TagOf(KeptRows[i]) : i \in 1..Len(KeptRows)}

\* the (model, node name) pairs named by the kept rows
KeptEndpoints ==
    {<<KeptRows[i].model, KeptRows[i].from_node>> : i \in 1..Len(KeptRows)}
        \cup {<<KeptRows[i].model, KeptRows[i].to_node>> : i \in 1..Len(KeptRows)}

IdOf(p) == p[1] \o <<":">> \o p[2]

\* a selection maps experiment x to exactly true
Shown(sel, x) == x \in DOMAIN sel /\ sel[x] = TRUE

\* the links and nodes a view must have for graph g under selection sel
LinksOf(g, sel) == {g.edges[i] : i \in {j \in 1..Len(g.edges) : Shown(sel, g.edges[j].experiment)}}

NodesOf(g, sel) ==
    {g.nodes[i] : i \in {j \in 1..Len(g.nodes) :
        \E e \in LinksOf(g, sel) : e.source = g.nodes[j].id \/ e.target = g.nodes[j].id}}

SeqSet(s) == {s[i] : i \in 1..Len(s)}

\* every selection over a subset of the loaded experiments
Selections == UNION {[D -> BOOLEAN] : D \in SUBSET (DOMAIN experimentColors)}

----------------------------------------------------------------------------
(* Properties *)

\* C1: when a load fails (fetch rejects or the parser reports errors) while a
\* graph was loaded, the full graph, the colour map and the selection are
\* what they were before that load was started.
C1_FailedLoadKeepsPriorState ==
    (LoadFailed /\ snap.taken /\ Len(snap.graph.nodes) > 0) =>
        /\ fullGraphData = snap.graph
        /\ experimentColors = snap.colors
        /\ visibleExperiments = snap.visible

\* C2: in every reachable state every edge of the full graph has its source
\* id and its target id among the ids of the nodes of the full graph.
C2_NoDanglingEdges ==
    \A i \in 1..Len(Edges) :
        Edges[i].source \in NodeIdSet /\ Edges[i].target \in NodeIdSet

C2_Witness ==
    /\ loads = 2
    /\ lastOp.op = "toggle"
    /\ Len(Edges) = 2
    /\ Edges[1].source # Edges[2].target

\* C3: in every reachable state no two nodes of the full graph have the same
\* id, and every (model, node name) named by a kept row, as source or as
\* target and in any number of rows, is exactly one node.
C3_NoDuplicateNodes ==
    /\ \A i, j \in 1..Len(Nodes) : Nodes[i].id = Nodes[j].id => i = j
    /\ csvData.present =>
         \A p \in KeptEndpoints :
             Cardinality({i \in 1..Len(Nodes) : Nodes[i].id = IdOf(p)}) = 1

C3_Witness ==
    /\ csvData.present
    /\ Len(KeptRows) = 2
    /\ KeptRows[1].from_node = KeptRows[2].from_node
    /\ KeptRows[1].to_node = KeptRows[2].to_node
    /\ KeptRows[1].from_node = KeptRows[1].to_node
    /\ Len(Nodes) = 1

\* C4: in every reachable state the links of the filtered view are exactly
\* the edges of the full graph whose experiment the selection maps to true
\* (in the order of the full graph), and its nodes are exactly the nodes of
\* the full graph that are source or target of such a link.
C4_FilteredViewIsInducedByVisibleEdges ==
    /\ SeqSet(filteredGraphData.links) = LinksOf(fullGraphData, visibleExperiments)
    /\ SeqSet(filteredGraphData.nodes) = NodesOf(fullGraphData, visibleExperiments)
    /\ Len(filteredGraphData.links) = Cardinality(LinksOf(fullGraphData, visibleExperiments))
    /\ Len(filteredGraphData.nodes) = Cardinality(NodesOf(fullGraphData, visibleExperiments))

C4_Witness ==
    /\ Len(Nodes) = 3
    /\ Len(Edges) = 2
    /\ Len(filteredGraphData.links) = 1
    /\ Len(filteredGraphData.nodes) = 1

\* C5: a row with an empty model, from_node, to_node or relationship gives no
\* node, no edge and no colour entry, and the other rows are still processed:
\* the load completes, the edges are those of the kept rows in order, the
\* nodes are those the kept rows name, the colour keys are tags of kept rows,
\* and a dataset with no kept row gives the empty graph.
C5_IncompleteRowsAreDropped ==
    csvData.present =>
        /\ lastOp.op = "loaded" /\ ~isLoading /\ pc = "idle"
        /\ Len(Edges) = Len(KeptRows)
        /\ \A i \in 1..Len(KeptRows) :
             /\ Edges[i].source = IdOf(<<KeptRows[i].model, KeptRows[i].from_node>>)
             /\ Edges[i].target = IdOf(<<KeptRows[i].model, KeptRows[i].to_node>>)
             /\ Edges[i].label = KeptRows[i].relationship
             /\ Edges[i].experiment = TagOf(KeptRows[i])
        /\ NodeIdSet = {IdOf(p) : p \in KeptEndpoints}
        /\ DOMAIN experimentColors \subseteq KeptTags
        /\ Len(KeptRows) = 0 => (fullGraphData = EmptyGraph /\ experimentColors = EmptyObj)

C5_Witness ==
    /\ csvData.present
    /\ Len(csvData.rows) = 2
    /\ csvData.rows[1].to_node = <<>>
    /\ csvData.rows[1].experiment = "e2"
    /\ Len(KeptRows) = 1
    /\ DOMAIN experimentColors = {"e1"}

\* C6: after a successful load the keys of the colour map are exactly the
\* experiment tags of the kept rows, and the i-th distinct tag (0-indexed, in
\* order of first appearance) has colour palette[i mod 8].
C6_ColorsByFirstAppearance ==
    csvData.present =>
        LET tag(i) == TagOf(KeptRows[i])
            first(t) == CHOOSE i \in 1..Len(KeptRows) :
                            tag(i) = t /\ \A j \in 1..(i - 1) : tag(j) # t
            rank(t) == Cardinality({tag(j) : j \in 1..(first(t) - 1)})
        IN /\ DOMAIN experimentColors = KeptTags
           /\ \A t \in KeptTags : experimentColors[t] = colors[(rank(t) % 8) + 1]

\* C7: immediately after every successful load the selection maps every key
\* of the new colour map to true and has no other key, whatever the
\* selection was before the load.
C7_LoadShowsEveryExperiment ==
    lastOp.op = "loaded" =>
        /\ DOMAIN visibleExperiments = DOMAIN experimentColors
        /\ \A k \in DOMAIN visibleExperiments : visibleExperiments[k] = TRUE

C7_Witness ==
    /\ lastOp.op = "loaded"
    /\ lastOp.hiddenBefore
    /\ Cardinality(DOMAIN experimentColors) = 2

\* C8: a toggle of experiment x gives a selection equal to the previous one
\* on every other key and with x inverted, and leaves the full graph and the
\* colour map unchanged.
C8_ToggleChangesOnlyItsKey ==
    lastOp.op = "toggle" =>
        /\ fullGraphData = snap.graph
        /\ experimentColors = snap.colors
        /\ DOMAIN visibleExperiments = DOMAIN snap.visible
        /\ \A k \in DOMAIN visibleExperiments :
             visibleExperiments[k] =
                 IF k = lastOp.experiment THEN ~snap.visible[k] ELSE snap.visible[k]

C8_Witness ==
    /\ lastOp.op = "toggle"
    /\ Cardinality(DOMAIN visibleExperiments) = 2
    /\ Len(Edges) = 2
    /\ ~visibleExperiments[lastOp.experiment]
    /\ \E k \in DOMAIN visibleExperiments : k # lastOp.experiment /\ ~visibleExperiments[k]

\* C9: filtering is monotone in the selection: when every key true in s2 is
\* true in s1, the links and nodes of the view under s2 are among those of
\* the view under s1; and a toggle of a hidden experiment to visible gives
\* the previous view plus that experiment's edges and their end nodes.
C9_FilterIsMonotone ==
    /\ \A s1, s2 \in Selections :
         (\A k \in DOMAIN s2 : s2[k] => Shown(s1, k)) =>
             /\ SeqSet(FilterGraph(fullGraphData, s2).links)
                  \subseteq SeqSet(FilterGraph(fullGraphData, s1).links)
             /\ SeqSet(FilterGraph(fullGraphData, s2).nodes)
                  \subseteq SeqSet(FilterGraph(fullGraphData, s1).nodes)
    /\ (lastOp.op = "toggle" /\ ~Shown(snap.visible, lastOp.experiment)) =>
         LET x == lastOp.experiment
             before == FilterGraph(snap.graph, snap.visible)
             added == {e \in SeqSet(Edges) : e.experiment = x}
         IN /\ SeqSet(filteredGraphData.links) = SeqSet(before.links) \cup added
            /\ SeqSet(filteredGraphData.nodes) =
                 SeqSet(before.nodes) \cup
                   {n \in SeqSet(Nodes) : \E e \in added : e.source = n.id \/ e.target = n.id}

C9_Witness ==
    /\ lastOp.op = "toggle"
    /\ snap.visible = [k \in {"e1", "e2"} |-> k = "e1"]
    /\ visibleExperiments = [k \in {"e1", "e2"} |-> TRUE]
    /\ Len(FilterGraph(snap.graph, snap.visible).nodes) = 2
    /\ Len(filteredGraphData.nodes) = 3

\* C10: for any two endpoints of kept rows the derived ids are equal exactly
\* when the models are equal and the node names are equal, so the full graph
\* has one node per distinct (model, node name) pair.
C10_NodeIdUniquePerPair ==
    csvData.present =>
        /\ \A p, q \in KeptEndpoints : (MakeId(p[1], p[2]) = MakeId(q[1], q[2])) <=> (p = q)
        /\ Cardinality(NodeIdSet) = Cardinality(KeptEndpoints)

\* C11: for every kept row with model m and endpoint name n (from_node or
\* to_node) the full graph has a node with id m:n, model m and label n, also
\* when n contains ':'.
C11_NodeCarriesModelAndLabel ==
    csvData.present =>
        \A p \in KeptEndpoints :
            \E i \in 1..Len(Nodes) :
                /\ Nodes[i].id = IdOf(p)
                /\ Nodes[i].model = p[1]
                /\ Nodes[i].label = p[2]

\* C12: after a successful load the full graph has exactly one edge per kept
\* row, in row order, each with an id of its own; rows equal in source,
\* target, relationship and experiment each give their own edge and share
\* one pair of nodes.
C12_OneEdgePerKeptRow ==
    csvData.present =>
        /\ Len(Edges) = Len(KeptRows)
        /\ \A i \in 1..Len(KeptRows) :
             /\ Edges[i].source = IdOf(<<KeptRows[i].model, KeptRows[i].from_node>>)
             /\ Edges[i].target = IdOf(<<KeptRows[i].model, KeptRows[i].to_node>>)
             /\ Edges[i].label = KeptRows[i].relationship
        /\ \A i, j \in 1..Len(Edges) : Edges[i].id = Edges[j].id => i = j

C12_Witness ==
    /\ csvData.present
    /\ Len(KeptRows) = 2
    /\ KeptRows[1] = KeptRows[2]
    /\ Len(Edges) = 2
    /\ Edges[1].id # Edges[2].id
    /\ Len(Nodes) = 2

\* C13: a click on Visualize with a URL that is empty or does not end with
\* ".csv" starts no load: no fetch is issued, the loading flag is not set and
\* the full graph, the colour map and the selection are unchanged; a load
\* that starts was requested with a URL ending with ".csv".
EndsWithDotCsv(u) ==
    /\ Len(u) >= 4
    /\ u[Len(u) - 3] = "." /\ u[Len(u) - 2] = "c" /\ u[Len(u) - 1] = "s" /\ u[Len(u)] = "v"

C13_InvalidUrlStartsNoLoad ==
    /\ lastOp.op = "start" => EndsWithDotCsv(lastOp.url)
    /\ lastOp.op = "rejected" =>
         /\ ~EndsWithDotCsv(lastOp.url)
         /\ ~isLoading /\ pc = "idle" /\ inFlight = {}
         /\ loads = snap.loads
         /\ fullGraphData = snap.graph
         /\ experimentColors = snap.colors
         /\ visibleExperiments = snap.visible

C13_Witness ==
    /\ lastOp.op = "rejected"
    /\ lastOp.url = <<"d", ".", "t", "x", "t">>
    /\ Len(Nodes) = 3
    /\ \E k \in DOMAIN visibleExperiments : ~visibleExperiments[k]

\* C14: every load that has started eventually clears the loading flag,
\* whether it ends in success, in a parse failure or in a network failure,
\* given that the fetch eventually settles.
C14_LoadingFlagIsEventuallyCleared == isLoading ~> ~isLoading

C14_Witness ==
    /\ lastOp.op = "parseFailure"
    /\ loads = 2
    /\ ~isLoading

\* C15: at most one load is in flight at any time: a load starts only while
\* the loading flag is false, the flag is true exactly while a load is in
\* flight, and the load whose result is stored is the one started last.
C15_AtMostOneLoadInFlight ==
    /\ Cardinality(inFlight) <= 1
    /\ isLoading <=> inFlight # {}
    /\ lastOp.op = "start" => ~snap.loading
    /\ lastOp.op = "loaded" => lastOp.load = loads

C15_Witness ==
    /\ lastOp.op = "loaded"
    /\ lastOp.load = 2
    /\ Len(Edges) = 2
    /\ inFlight = {}

\* C16: a row with an empty experiment and its four required fields is kept,
\* its edge carries the tag "undefined", and that tag gets the colour of its
\* first-appearance rank like any other tag and is a key of the colour map
\* and of the initial selection.
C16_EmptyExperimentIsTaggedUndefined ==
    csvData.present =>
        /\ Len(Edges) = Len(KeptRows)
        /\ \A i \in 1..Len(KeptRows) :
             KeptRows[i].experiment = "" =>
                LET tag(j) == TagOf(KeptRows[j])
                    first == CHOOSE j \in 1..i :
                                 KeptRows[j].experiment = ""
                                     /\ \A h \in 1..(j - 1) : KeptRows[h].experiment # ""
                    rank == Cardinality({tag(j) : j \in 1..(first - 1)})
                IN /\ Edges[i].experiment = "undefined"
                   /\ "undefined" \in DOMAIN experimentColors
                   /\ experimentColors["undefined"] = colors[(rank % 8) + 1]
                   /\ "undefined" \in DOMAIN visibleExperiments
                   /\ visibleExperiments["undefined"] = TRUE

C16_Witness ==
    /\ csvData.present
    /\ Len(KeptRows) = 4
    /\ KeptRows[1].experiment = "e1"
    /\ KeptRows[2].experiment = "e2"
    /\ KeptRows[3].experiment = ""
    /\ KeptRows[4].experiment = ""
    /\ experimentColors["undefined"] = "#45B7D1"

\* what reading obj[key] gives in the code
Lookup(obj, key) ==
    IF key \in DOMAIN obj THEN obj[key]
    ELSE IF key = "__proto__" THEN "[object Object]" ELSE "<undefined>"

\* C17: in every reachable state every edge of the full graph, and every
\* link of the filtered view, has the colour the stored colour map gives to
\* its experiment; a toggle changes no edge.
C17_EdgeColorIsExperimentColor ==
    /\ \A i \in 1..Len(Edges) :
         Edges[i].color = Lookup(experimentColors, Edges[i].experiment)
    /\ \A i \in 1..Len(filteredGraphData.links) :
         filteredGraphData.links[i].color =
             Lookup(experimentColors, filteredGraphData.links[i].experiment)
    /\ lastOp.op = "toggle" => Edges = snap.graph.edges

C17_Witness ==
    /\ lastOp.op = "toggle"
    /\ Len(Edges) = 2
    /\ Edges[1].experiment # Edges[2].experiment
    /\ Edges[1].color = "#FF6B6B"
    /\ Edges[2].color = "#4ECDC4"
    /\ Len(filteredGraphData.links) = 1

\* C18: in every reachable state the keys of the selection are the keys of
\* the stored colour map, and a toggle is only ever made on a key the
\* selection already has.
C18_SelectionKeysAreColorKeys ==
    /\ DOMAIN visibleExperiments = DOMAIN experimentColors
    /\ lastOp.op = "toggle" => lastOp.experiment \in DOMAIN snap.visible

C18_Witness ==
    /\ lastOp.op = "toggle"
    /\ loads = 2
    /\ Cardinality(DOMAIN visibleExperiments) = 2
    /\ \A k \in DOMAIN visibleExperiments : ~visibleExperiments[k]

\* C19: while a load is in flight the full graph, the colour map and the
\* selection are empty, the filtered view is empty and no toggle is offered,
\* so the last handler that ran is the one that started the load.
C19_NothingToToggleWhileLoading ==
    isLoading =>
        /\ fullGraphData = [nodes |-> <<>>, edges |-> <<>>]
        /\ DOMAIN experimentColors = {}
        /\ DOMAIN visibleExperiments = {}
        /\ filteredGraphData = [nodes |-> <<>>, links |-> <<>>]
        /\ ~ENABLED ToggleExperimentVisibility
        /\ lastOp.op = "start"

C19_Witness ==
    /\ isLoading
    /\ loads = 2
    /\ Len(snap.graph.nodes) = 3
    /\ \E k \in DOMAIN snap.visible : ~snap.visible[k]

====
